---- MODULE Spec2Model ----
(***************************************************************************)
(* A model of files/multipartfile.go: the directory iterator that rebuilds *)
(* a file tree from a stream of multipart parts, with its one-slot         *)
(* lookahead buffer (peekReader) and the part classifier (newFileFromPart).*)
(*                                                                         *)
(* Strings the code inspects character by character (file names, paths)    *)
(* are sequences of one-character strings, so that path.Split, path.Clean, *)
(* strings.HasPrefix and url.QueryUnescape are computed, not assumed.      *)
(* A *multipart.Part is a pointer: it is modelled by the position of the   *)
(* part in the underlying stream (0 is the nil pointer).                   *)
(***************************************************************************)
EXTENDS Naturals, Sequences, FiniteSets

\* ------------------------------------------------------------- bounds

\* The longest underlying part stream (parts and transport failures).
MaxParts == 3

\* The most iterators a free-running caller obtains with Entries().
MaxIters == 2

\* The count of end-of-input answers of the underlying source saturates here.
MaxEOFCalls == 2

\* ---------------------------------------------------------- constants

multipartFormdataType == "multipart/form-data"
multipartMixedType == "multipart/mixed"
applicationDirectory == "application/x-directory"
applicationSymlink == "application/symlink"
applicationFile == "application/octet-stream"

\* Error values.  NoErr is Go's nil error.
NoErr == "nil"
EOF == "EOF"
ErrPartOutsideParent == "file outside parent dir"
ErrPartInChildTree == "file in child tree"
ErrNotDirectory == "ErrNotDirectory"
ErrCannotPut == "cannot put multiple parts"
ErrCannotUndo == "cannot undo NextPart"
\* Errors of the external collaborators: the transport under the part source,
\* the body reader of a part, mime.ParseMediaType.
ErrSource == "multipart: NextPart failed"
ErrReadBody == "part body: read error"
ErrMime == "mime: expected token after slash"

\* ------------------------------------------------------ string helpers

\* strings.HasPrefix
HasPrefix(s, prefix) ==
    /\ Len(prefix) <= Len(s)
    /\ SubSeq(s, 1, Len(prefix)) = prefix

\* strings.LastIndex(s, "/") + 1: the position of the last slash, 0 if none.
LastSlash(s) ==
    LET I == {i \in 1..Len(s) : s[i] = "/"}
    IN  IF I = {} THEN 0 ELSE CHOOSE i \in I : \A j \in I : j <= i

\* path.Split: <<dir, file>>, dir keeps its trailing slash.
SplitAt(p, i) == <<SubSeq(p, 1, i), SubSeq(p, i + 1, Len(p))>>

PathSplit(p) == SplitAt(p, LastSlash(p))

\* path.Clean's ".." step on the output buffer: drop the last element.
\* (out.w--; for out.w > dotdot && out.index(out.w) != '/' { out.w-- })
RECURSIVE CleanBacktrack(_, _, _)
CleanBacktrack(out, w, dotdot) ==
    IF w > dotdot /\ out[w + 1] # "/"
    THEN CleanBacktrack(out, w - 1, dotdot)
    ELSE SubSeq(out, 1, w)

\* The end of the path element starting at r: the first j >= r past the end
\* of p or at a slash.
RECURSIVE ElementEnd(_, _)
ElementEnd(p, r) ==
    IF r > Len(p) \/ p[r] = "/" THEN r ELSE ElementEnd(p, r + 1)

\* path.Clean's main loop; r is the (1-based) read position, out the output
\* buffer, dotdot the length of the prefix ".." may not back over.
RECURSIVE CleanLoop(_, _, _, _)
CleanLoop(p, r, out, dotdot) ==
    LET n == Len(p)
        rooted == p[1] = "/"
    IN  IF r > n THEN out
        ELSE IF p[r] = "/" THEN CleanLoop(p, r + 1, out, dotdot)
        ELSE IF p[r] = "." /\ (r = n \/ p[r + 1] = "/")
             THEN CleanLoop(p, r + 1, out, dotdot)
        ELSE IF p[r] = "." /\ p[r + 1] = "." /\ (r + 1 = n \/ p[r + 2] = "/")
             THEN IF Len(out) > dotdot
                  THEN CleanLoop(p, r + 2,
                                 CleanBacktrack(out, Len(out) - 1, dotdot), dotdot)
                  ELSE IF ~rooted
                  THEN LET o2 == (IF Len(out) > 0 THEN out \o <<"/">> ELSE out)
                                 \o <<".", ".">>
                       IN  CleanLoop(p, r + 2, o2, Len(o2))
                  ELSE CleanLoop(p, r + 2, out, dotdot)
        ELSE LET sep == IF (rooted /\ Len(out) # 1) \/ (~rooted /\ Len(out) # 0)
                        THEN <<"/">> ELSE <<>>
                 e == ElementEnd(p, r)
             IN  CleanLoop(p, e, out \o sep \o SubSeq(p, r, e - 1), dotdot)

\* path.Clean
PathClean(p) ==
    IF p = <<>> THEN <<".">>
    ELSE LET rooted == p[1] = "/"
             out == IF rooted
                    THEN CleanLoop(p, 2, <<"/">>, 1)
                    ELSE CleanLoop(p, 1, <<>>, 0)
         IN  IF out = <<>> THEN <<".">> ELSE out

\* ------------------------------------------------------ url.QueryUnescape

HexDigits == {"0", "1", "2", "3", "4", "5", "6", "7", "8", "9",
              "a", "b", "c", "d", "e", "f", "A", "B", "C", "D", "E", "F"}

\* net/url's unhex
Unhex(c) ==
    CASE c = "0" -> 0 [] c = "1" -> 1 [] c = "2" -> 2 [] c = "3" -> 3
      [] c = "4" -> 4 [] c = "5" -> 5 [] c = "6" -> 6 [] c = "7" -> 7
      [] c = "8" -> 8 [] c = "9" -> 9
      [] c \in {"a", "A"} -> 10 [] c \in {"b", "B"} -> 11
      [] c \in {"c", "C"} -> 12 [] c \in {"d", "D"} -> 13
      [] c \in {"e", "E"} -> 14 [] c \in {"f", "F"} -> 15

\* The character of a byte, for the bytes the model's names can decode to;
\* any other byte is the one character "?".
ByteChar(code) ==
    CASE code = 32 -> " " [] code = 37 -> "%" [] code = 43 -> "+"
      [] code = 46 -> "." [] code = 47 -> "/"
      [] code = 97 -> "a" [] code = 98 -> "b"
      [] code = 120 -> "x" [] code = 121 -> "y"
      [] OTHER -> "?"

\* url.unescape's first pass: a '%' not followed by two hex digits is an
\* EscapeError.
EscapeError(s) ==
    \E i \in 1..Len(s) :
        /\ s[i] = "%"
        /\ \/ i + 2 > Len(s)
           \/ s[i + 1] \notin HexDigits
           \/ s[i + 2] \notin HexDigits

\* url.unescape's second pass, from position i on.
RECURSIVE UnescapeFrom(_, _)
UnescapeFrom(s, i) ==
    IF i > Len(s) THEN <<>>
    ELSE IF s[i] = "%"
         THEN <<ByteChar(16 * Unhex(s[i + 1]) + Unhex(s[i + 2]))>>
              \o UnescapeFrom(s, i + 3)
    ELSE IF s[i] = "+" THEN <<" ">> \o UnescapeFrom(s, i + 1)
    ELSE <<s[i]>> \o UnescapeFrom(s, i + 1)

\* url.QueryUnescape: [out, err]
QueryUnescape(s) ==
    IF EscapeError(s)
    THEN [out |-> <<>>, err |-> "invalid URL escape"]
    ELSE [out |-> UnescapeFrom(s, 1), err |-> NoErr]

\* ------------------------------------------------------ mime.ParseMediaType

\* The Content-Type header values of the model.
ContentTypes ==
    {"", applicationSymlink, applicationFile, multipartFormdataType,
     applicationDirectory, multipartMixedType, "text/plain",
     "Multipart/Form-Data", "multipart/form-data; boundary=x", "bad/"}

\* mime.ParseMediaType on those values: the media type is the text before
\* the first ';', trimmed and lower-cased; a type with no subtype token after
\* the slash, and the empty string, do not parse.
ParseMediaType(v) ==
    CASE v = "" -> [mediatype |-> "", err |-> "mime: no media type"]
      [] v = "bad/" -> [mediatype |-> "", err |-> ErrMime]
      [] v = "Multipart/Form-Data" ->
            [mediatype |-> multipartFormdataType, err |-> NoErr]
      [] v = "multipart/form-data; boundary=x" ->
            [mediatype |-> multipartFormdataType, err |-> NoErr]
      [] OTHER -> [mediatype |-> v, err |-> NoErr]

\* ------------------------------------------------------------- parts

\* The values Part.FileName() returns in the model (url-escaped by the
\* sender): "a", "b", "a/x", "a%2Fy" (that is "a/y") and "ab/x".
nameA == <<"a">>
nameB == <<"b">>
nameAX == <<"a", "/", "x">>
nameAY == <<"a", "%", "2", "F", "y">>
nameABX == <<"a", "b", "/", "x">>

\* One answer of the underlying part source: a part (its FileName(), its
\* Content-Type and abspath headers, its body and whether reading the body
\* fails), or a failure of the source other than end-of-input (SrcErr): a part
\* whose header is malformed, a transport error.  The source may give parts
\* after it, as a multipart.Reader does after a malformed part.
MkPart(name, contentType, readErr) ==
    [FileName |-> name, ContentType |-> contentType, Abspath |-> "",
     Body |-> "../target", ReadErr |-> readErr, SrcErr |-> FALSE]

SourceFailure ==
    [FileName |-> <<>>, ContentType |-> "", Abspath |-> "",
     Body |-> "", ReadErr |-> FALSE, SrcErr |-> TRUE]

\* The answers the model's streams are made of: directories "a" and "a/x",
\* files at the top, inside "a" and inside "ab", a symlink inside "a" that
\* reads and one that does not, a Content-Type that does not parse, a failure of the source.
SourceEvents ==
    {MkPart(nameA, multipartFormdataType, FALSE),
     MkPart(nameB, "", FALSE),
     MkPart(nameB, "bad/", FALSE),
     MkPart(nameAX, "", FALSE),
     MkPart(nameAX, multipartFormdataType, FALSE),
     MkPart(nameAX, applicationSymlink, TRUE),
     MkPart(nameAY, applicationSymlink, FALSE),
     MkPart(nameABX, "", FALSE),
     SourceFailure}

\* The sequences over S of length n.
RECURSIVE SeqsOfLen(_, _)
SeqsOfLen(S, n) ==
    IF n = 0 THEN {<<>>}
    ELSE {Append(q, e) : q \in SeqsOfLen(S, n - 1), e \in S}

\* The sequences over S of length at most n.
SeqsUpTo(S, n) == UNION {SeqsOfLen(S, k) : k \in 0..n}

\* ------------------------------------------------------------- state

VARIABLES
    src,        \* the underlying part source's answers, in order
    pos,        \* how many of them the underlying source has given
    eofCalls,   \* how often the underlying source has answered end-of-input
    pr,         \* the peekReader: [r, next]
    its,        \* the iterators Entries() has returned, in order of creation
    yielded,    \* the entries Next() has yielded, in order (history)
    last,       \* what the last operation did (history)
    stack,      \* the draining caller: the iterators it is inside of
    pending     \* the draining caller: the directory it is about to enter

vars == <<src, pos, eofCalls, pr, its, yielded, last, stack, pending>>

\* The state of the part readers, threaded through one call.
ReaderState == [pr |-> pr, pos |-> pos, eofCalls |-> eofCalls]

\* Nodes.  NilNode is the nil Node.
NilNode == [kind |-> "nil"]
ReaderFile(part, abspath) == [kind |-> "File", reader |-> part, abspath |-> abspath]
NewLinkFile(target) == [kind |-> "Symlink", Target |-> target]
\* A MultipartFile; Reader is "pr" (the *peekReader), "raw" (a PartReader
\* that is no *peekReader: the underlying source itself) or "nil".
MultipartFile(part, reader, mediatype) ==
    [kind |-> "Directory", Part |-> part, Reader |-> reader, Mediatype |-> mediatype]

NoPending == [kind |-> "none"]

\* ----------------------------------------------------- the classifier

\* An isDirectory that takes every multipart type for a directory.
isDirectoryOrMixed(mediatype) ==
    mediatype \in {multipartFormdataType, multipartMixedType, applicationDirectory}

\* isDirectory
isDirectory(mediatype) ==
    mediatype = multipartFormdataType \/ mediatype = applicationDirectory

\* fileName, lines 183-188: the unescaped name, the raw one if it does not
\* unescape.
UnescapedOrRaw(raw, u) == IF u.err # NoErr THEN raw ELSE u.out

\* (*MultipartFile).fileName
fileName(f) ==
    IF f.Part = 0 THEN <<>>
    ELSE UnescapedOrRaw(src[f.Part].FileName, QueryUnescape(src[f.Part].FileName))

\* ioutil.ReadAll(part): [out, err]
ReadAll(part) ==
    IF src[part].ReadErr
    THEN [out |-> "", err |-> ErrReadBody]
    ELSE [out |-> src[part].Body, err |-> NoErr]

\* A normalisation that leaves "." as it is.
DotIsEmptyKeepsDot(d) == d

\* newFileFromPart, lines 63-68: "." is the empty path.
DotIsEmpty(d) == IF d = <<".">> THEN <<>> ELSE d

\* newFileFromPart, lines 60-68, after path.Split.
ScopePathsOf(sp, parent) ==
    [dir |-> DotIsEmpty(PathClean(sp[1])),
     base |-> sp[2],
     parent |-> DotIsEmpty(PathClean(parent))]

\* newFileFromPart, lines 55-68: the part's declared parent dir and base
\* name, and the directory's path, normalised.
ScopePaths(parent, part, reader) ==
    ScopePathsOf(PathSplit(fileName(MultipartFile(part, reader, ""))), parent)

\* A scope test that compares path segments: a descendant has the directory's
\* path and a slash as its prefix.
ScopeErrBySegments(dir, parent) ==
    IF dir # parent
    THEN IF parent = <<>> \/ HasPrefix(dir, parent \o <<"/">>)
         THEN ErrPartInChildTree ELSE ErrPartOutsideParent
    ELSE NoErr

\* newFileFromPart, lines 70-75: the scope error, NoErr for a direct child.
ScopeErr(dir, parent) ==
    IF dir # parent
    THEN IF HasPrefix(dir, parent) THEN ErrPartInChildTree ELSE ErrPartOutsideParent
    ELSE NoErr

\* newFileFromPart, lines 80-85: a symlink, from what ReadAll returned.
SymlinkFromBody(base, ra) ==
    IF ra.err # NoErr
    THEN [name |-> <<>>, node |-> NilNode, err |-> ra.err]
    ELSE [name |-> base, node |-> NewLinkFile(ra.out), err |-> NoErr]

\* A classifier that binds a nested directory to the underlying part source
\* instead of the reader it was given.
NodeFromMediaTypeBindsSource(base, part, reader, pm) ==
    IF pm.err # NoErr
    THEN [name |-> <<>>, node |-> NilNode, err |-> pm.err]
    ELSE IF ~isDirectory(pm.mediatype)
    THEN [name |-> base, node |-> ReaderFile(part, src[part].Abspath), err |-> NoErr]
    ELSE [name |-> base, node |-> MultipartFile(part, "raw", pm.mediatype),
          err |-> NoErr]

\* newFileFromPart, lines 96-108: a file or a directory, from what
\* mime.ParseMediaType returned.
NodeFromMediaType(base, part, reader, pm) ==
    IF pm.err # NoErr
    THEN [name |-> <<>>, node |-> NilNode, err |-> pm.err]
    ELSE IF ~isDirectory(pm.mediatype)
    THEN [name |-> base, node |-> ReaderFile(part, src[part].Abspath), err |-> NoErr]
    ELSE [name |-> base, node |-> MultipartFile(part, reader, pm.mediatype),
          err |-> NoErr]

\* A classifier that parses an empty Content-Type like any other value.
NodeFromPartParsesEmpty(base, part, reader) ==
    IF src[part].ContentType = applicationSymlink
    THEN SymlinkFromBody(base, ReadAll(part))
    ELSE IF src[part].ContentType = applicationFile
    THEN [name |-> base, node |-> ReaderFile(part, src[part].Abspath), err |-> NoErr]
    ELSE NodeFromMediaType(base, part, reader, ParseMediaType(src[part].ContentType))

\* newFileFromPart, lines 77-108: the node of a direct child.
NodeFromPart(base, part, reader) ==
    IF src[part].ContentType = applicationSymlink
    THEN SymlinkFromBody(base, ReadAll(part))
    ELSE IF src[part].ContentType = "" \/ src[part].ContentType = applicationFile
    THEN [name |-> base, node |-> ReaderFile(part, src[part].Abspath), err |-> NoErr]
    ELSE NodeFromMediaType(base, part, reader, ParseMediaType(src[part].ContentType))

\* A classifier that looks at the Content-Type and the body first and at the
\* scope afterwards.
ClassifyScopedAfterNode(sc, part, reader) ==
    IF NodeFromPart(sc.base, part, reader).err # NoErr
    THEN NodeFromPart(sc.base, part, reader)
    ELSE IF ScopeErr(sc.dir, sc.parent) # NoErr
    THEN [name |-> <<>>, node |-> NilNode, err |-> ScopeErr(sc.dir, sc.parent)]
    ELSE NodeFromPart(sc.base, part, reader)

\* newFileFromPart, lines 70-109, on the normalised paths.
ClassifyScoped(sc, part, reader) ==
    IF ScopeErr(sc.dir, sc.parent) # NoErr
    THEN [name |-> <<>>, node |-> NilNode, err |-> ScopeErr(sc.dir, sc.parent)]
    ELSE NodeFromPart(sc.base, part, reader)

\* newFileFromPart: [name, node, err]
newFileFromPart(parent, part, reader) ==
    ClassifyScoped(ScopePaths(parent, part, reader), part, reader)

\* ------------------------------------------------------- the readers

\* A part source that gives a part without moving past it.
SourceNextPartStaysPut(rs) ==
    IF rs.pos < Len(src)
    THEN [part |-> IF src[rs.pos + 1].SrcErr THEN 0 ELSE rs.pos + 1,
          err |-> IF src[rs.pos + 1].SrcErr THEN ErrSource ELSE NoErr,
          rs |-> IF src[rs.pos + 1].SrcErr THEN [rs EXCEPT !.pos = rs.pos + 1] ELSE rs]
    ELSE [part |-> 0, err |-> EOF,
          rs |-> [rs EXCEPT !.eofCalls =
                      IF rs.eofCalls < MaxEOFCalls THEN rs.eofCalls + 1 ELSE rs.eofCalls]]

\* The underlying source's NextPart (a *multipart.Reader): its next answer,
\* and end-of-input once they are used up.  [part, err, rs]
SourceNextPart(rs) ==
    IF rs.pos < Len(src)
    THEN [part |-> IF src[rs.pos + 1].SrcErr THEN 0 ELSE rs.pos + 1,
          err |-> IF src[rs.pos + 1].SrcErr THEN ErrSource ELSE NoErr,
          rs |-> [rs EXCEPT !.pos = rs.pos + 1]]
    ELSE [part |-> 0, err |-> EOF,
          rs |-> [rs EXCEPT !.eofCalls =
                      IF rs.eofCalls < MaxEOFCalls THEN rs.eofCalls + 1 ELSE rs.eofCalls]]

\* A NextPart that keeps its source after end-of-input.
FromSourceKeepsSource(s) == s

\* A NextPart that also keeps the part the source gave in the slot.
FromSourceBuffersPart(s) ==
    [part |-> s.part, err |-> s.err,
     rs |-> IF s.err = EOF THEN [s.rs EXCEPT !.pr.r = "nil"]
            ELSE IF s.err = NoErr THEN [s.rs EXCEPT !.pr.next = s.part]
            ELSE s.rs]

\* NextPart, lines 222-226: the source's answer; the source is dropped at
\* end-of-input.
FromSource(s) ==
    [part |-> s.part, err |-> s.err,
     rs |-> IF s.err = EOF THEN [s.rs EXCEPT !.pr.r = "nil"] ELSE s.rs]

\* A NextPart that returns the pending part and leaves it in the slot.
peekReaderNextPartKeepsPending(rs) ==
    IF rs.pr.next # 0
    THEN [part |-> rs.pr.next, err |-> NoErr, rs |-> rs]
    ELSE IF rs.pr.r = "nil"
    THEN [part |-> 0, err |-> EOF, rs |-> rs]
    ELSE FromSource(SourceNextPart(rs))

\* (*peekReader).NextPart: [part, err, rs]
peekReaderNextPart(rs) ==
    IF rs.pr.next # 0
    THEN [part |-> rs.pr.next, err |-> NoErr, rs |-> [rs EXCEPT !.pr.next = 0]]
    ELSE IF rs.pr.r = "nil"
    THEN [part |-> 0, err |-> EOF, rs |-> rs]
    ELSE FromSource(SourceNextPart(rs))

\* A put that overwrites a pending part.
peekReaderPutOverwrites(rs, p) ==
    [err |-> NoErr, rs |-> [rs EXCEPT !.pr.next = p]]

\* (*peekReader).put: [err, rs]
peekReaderPut(rs, p) ==
    IF rs.pr.next # 0
    THEN [err |-> ErrCannotPut, rs |-> rs]
    ELSE [err |-> NoErr, rs |-> [rs EXCEPT !.pr.next = p]]

\* it.f.Reader.NextPart(): the interface call.
ReaderNextPart(reader, rs) ==
    IF reader = "pr" THEN peekReaderNextPart(rs) ELSE SourceNextPart(rs)

\* ------------------------------------------------------ the iterator

\* NewFileFromPartReader: [f, err]; the reader is wrapped in a new peekReader.
NewFileFromPartReader(mediatype) ==
    IF ~isDirectory(mediatype)
    THEN [f |-> NilNode, err |-> ErrNotDirectory]
    ELSE [f |-> MultipartFile(0, "pr", mediatype), err |-> NoErr]

\* The root directory of the model.
Root == NewFileFromPartReader(multipartFormdataType).f

\* (*MultipartFile).Entries: a new iterator.  ret is history: what the
\* iterator's last Next() returned ("none" before the first call).
NewIterator(f) ==
    [f |-> f, curFile |-> NilNode, curName |-> <<>>, err |-> NoErr, ret |-> "none"]

\* A Next that records end-of-input as an error.
NextSourceErrorStoresEOF(it, err) ==
    [it EXCEPT !.err = err]

\* Next, lines 139-145: the part source failed.
NextSourceError(it, err) ==
    IF err = EOF THEN it ELSE [it EXCEPT !.err = err]

\* A Next that stops at a part of a child tree.
NextDispositionStopsOnChildTree(err) ==
    IF err = ErrPartOutsideParent \/ err = ErrPartInChildTree THEN "break" ELSE "return"

\* A Next that returns on a part of a child tree.
NextDispositionSurfacesChildTree(err) ==
    IF err = ErrPartOutsideParent THEN "break" ELSE "return"

\* Next, lines 148-156: what the loop does with newFileFromPart's error.
NextDisposition(err) ==
    IF err = ErrPartOutsideParent THEN "break"
    ELSE IF err # ErrPartInChildTree THEN "return"
    ELSE "continue"

\* A Next that keeps the iterator's old error.
NextRecordKeepsError(it, c) ==
    [it EXCEPT !.curFile = c.node, !.curName = c.name]

\* Next, lines 152-154: the entry, or the classifier's error, is recorded.
NextRecord(it, c) ==
    [it EXCEPT !.curFile = c.node, !.curName = c.name, !.err = c.err]

\* Next, line 166: put's error is the iterator's.
NextUndoPut(it, pu) == [it |-> [it EXCEPT !.err = pu.err], rs |-> pu.rs]

\* An undo that forgets to push the part back.
NextUndoForgetsPart(it, rs, part) ==
    [it |-> [it EXCEPT !.err = NoErr], rs |-> rs]

\* Next, lines 159-167: the part read too far is pushed back.  [it, rs]
NextUndo(it, rs, part) ==
    IF it.f.Reader # "pr"
    THEN [it |-> [it EXCEPT !.err = ErrCannotUndo], rs |-> rs]
    ELSE NextUndoPut(it, peekReaderPut(rs, part))

\* Next, lines 158-167: the result of the call when the loop was left.
NextAfterLoop(u, pulled) ==
    [it |-> u.it, rs |-> u.rs, ret |-> FALSE, pulled |-> pulled, srcErr |-> NoErr]

\* Next, lines 136-157: the loop.  pulled is history: the parts this call has
\* pulled so far; srcErr is what its last NextPart returned.
RECURSIVE NextLoop(_, _, _)
RECURSIVE NextLoopPulled(_, _, _)
RECURSIVE NextLoopClassified(_, _, _, _)

\* lines 147-156, c being what newFileFromPart returned for np.part
NextLoopClassified(it, np, pulled, c) ==
    IF NextDisposition(c.err) = "break"
    THEN NextAfterLoop(NextUndo(it, np.rs, np.part), pulled)
    ELSE IF NextDisposition(c.err) = "return"
    THEN [it |-> NextRecord(it, c), rs |-> np.rs, ret |-> c.err = NoErr,
          pulled |-> pulled, srcErr |-> NoErr]
    ELSE NextLoop(it, np.rs, pulled)

\* lines 139-147, np being what NextPart returned
NextLoopPulled(it, pulled, np) ==
    IF np.err # NoErr
    THEN [it |-> NextSourceError(it, np.err), rs |-> np.rs, ret |-> FALSE,
          pulled |-> pulled, srcErr |-> np.err]
    ELSE NextLoopClassified(it, np, Append(pulled, np.part),
                            newFileFromPart(fileName(it.f), np.part, it.f.Reader))

NextLoop(it, rs, pulled) ==
    NextLoopPulled(it, pulled, ReaderNextPart(it.f.Reader, rs))

\* (*multipartIterator).Next: [it, rs, ret, pulled, srcErr]
IteratorNext(it, rs) ==
    IF it.f.Reader = "nil"
    THEN [it |-> it, rs |-> rs, ret |-> FALSE, pulled |-> <<>>, srcErr |-> NoErr]
    ELSE NextLoop(it, rs, <<>>)

\* ------------------------------------------------------------ actions

\* The record of the last call of Next, NextPart or put (history).  Of Next:
\* the iterator it was called on, what it returned, the iterator's error
\* before the call, the parts the call pulled and the error of its last
\* NextPart.  Of NextPart and put, called on the buffer itself: put's
\* argument, the part and the error returned, and the readers' state before
\* the call.
NoOp ==
    [op |-> "none", it |-> 0, ret |-> FALSE, errBefore |-> NoErr, pulled |-> <<>>,
     srcErr |-> NoErr, arg |-> 0, part |-> 0, err |-> NoErr,
     before |-> [pr |-> [r |-> "src", next |-> 0], pos |-> 0, eofCalls |-> 0]]

\* The directories a caller can hold: the root and every directory yielded.
KnownDirs ==
    {Root} \cup {yielded[k].node : k \in {j \in 1..Len(yielded) : yielded[j].node.kind = "Directory"}}

\* The effect of its[i].Next(), r being what the call returned.
NextEffect(i, r) ==
    /\ its' = [its EXCEPT ![i] = [r.it EXCEPT !.ret = IF r.ret THEN "true" ELSE "false"]]
    /\ pr' = r.rs.pr
    /\ pos' = r.rs.pos
    /\ eofCalls' = r.rs.eofCalls
    /\ yielded' = IF r.ret
                  THEN Append(yielded, [it |-> i, dir |-> fileName(its[i].f),
                                        part |-> r.pulled[Len(r.pulled)],
                                        name |-> r.it.curName, node |-> r.it.curFile])
                  ELSE yielded
    /\ last' = [NoOp EXCEPT !.op = "Next", !.it = i, !.ret = r.ret,
                            !.errBefore = its[i].err, !.pulled = r.pulled,
                            !.srcErr = r.srcErr]
    /\ UNCHANGED src

\* The effect of f.Entries() on the whole state.
EntriesEffect(f) ==
    /\ its' = Append(its, NewIterator(f))
    /\ UNCHANGED <<src, pos, eofCalls, pr, yielded, last>>

\* A caller obtains an iterator of a directory it holds.
Entries(f) ==
    /\ Len(its) < MaxIters
    /\ EntriesEffect(f)
    /\ UNCHANGED <<stack, pending>>

\* A caller advances an iterator it holds.
CallNext(i) ==
    /\ NextEffect(i, IteratorNext(its[i], ReaderState))
    /\ UNCHANGED <<stack, pending>>

\* A caller of the lookahead buffer pulls a part.
BufEffect(op, arg, r) ==
    /\ pr' = r.rs.pr
    /\ pos' = r.rs.pos
    /\ eofCalls' = r.rs.eofCalls
    /\ last' = [NoOp EXCEPT !.op = op, !.arg = arg, !.part = r.part, !.err = r.err,
                            !.before = ReaderState]
    /\ UNCHANGED <<src, its, yielded, stack, pending>>

\* put returns no part.
PutResult(pu) == [part |-> 0, err |-> pu.err, rs |-> pu.rs]

\* pr.NextPart(), called on the buffer itself.
BufNextPart ==
    BufEffect("NextPart", 0, peekReaderNextPart(ReaderState))

\* pr.put(p), called on the buffer itself with a part the source has given.
BufPut(p) ==
    /\ ~src[p].SrcErr
    /\ BufEffect("put", p, PutResult(peekReaderPut(ReaderState, p)))

\* The draining caller enters the directory it was given: it takes the
\* directory's iterator.
DrainEnter ==
    /\ pending # NoPending
    /\ EntriesEffect(pending)
    /\ stack' = Append(stack, Len(its) + 1)
    /\ pending' = NoPending

\* What the draining caller does with what Next returned: it enters a
\* directory, stays for a leaf, and leaves the directory at the end-marker.
DrainNextEffect(i, r) ==
    /\ NextEffect(i, r)
    /\ pending' = IF r.ret /\ r.it.curFile.kind = "Directory"
                  THEN r.it.curFile ELSE NoPending
    /\ stack' = IF r.ret THEN stack ELSE SubSeq(stack, 1, Len(stack) - 1)

\* The draining caller advances the iterator of the directory it is in.
DrainNext ==
    /\ pending = NoPending
    /\ stack # <<>>
    /\ DrainNextEffect(stack[Len(stack)],
                       IteratorNext(its[stack[Len(stack)]], ReaderState))

Streams == SeqsUpTo(SourceEvents, MaxParts)

InitWith(stream) ==
    /\ src = stream
    /\ pos = 0
    /\ eofCalls = 0
    /\ pr = [r |-> "src", next |-> 0]
    /\ its = <<>>
    /\ yielded = <<>>
    /\ last = NoOp
    /\ stack = <<>>

Init ==
    /\ \E stream \in Streams : InitWith(stream)
    /\ pending = NoPending

Next ==
    \/ \E f \in KnownDirs : Entries(f)
    \/ \E i \in 1..Len(its) : CallNext(i)

Spec == Init /\ [][Next]_vars

\* The lookahead buffer alone, driven through NextPart and put.
NextBuf ==
    \/ BufNextPart
    \/ \E p \in 1..pos : BufPut(p)

SpecBuf == Init /\ [][NextBuf]_vars

\* ------------------------------------------- well-formed part streams

\* The path a part declares: its unescaped file name.
DeclPath(stream, i) ==
    UnescapedOrRaw(stream[i].FileName, QueryUnescape(stream[i].FileName))

\* The parent of a clean relative path.
ParentPath(p) ==
    IF LastSlash(p) = 0 THEN <<>> ELSE SubSeq(p, 1, LastSlash(p) - 1)

\* The node kind a part declares.
DeclKind(stream, i) ==
    IF stream[i].ContentType = applicationSymlink THEN "Symlink"
    ELSE IF stream[i].ContentType \in {"", applicationFile} THEN "File"
    ELSE IF isDirectory(ParseMediaType(stream[i].ContentType).mediatype) THEN "Directory"
    ELSE "File"

\* A part that can be read: no transport failure, a body that reads, a
\* Content-Type that parses, a clean relative path with a base name.
ReadablePart(stream, i) ==
    /\ ~stream[i].SrcErr
    /\ ~stream[i].ReadErr
    /\ \/ stream[i].ContentType \in {"", applicationSymlink, applicationFile}
       \/ ParseMediaType(stream[i].ContentType).err = NoErr
    /\ DeclPath(stream, i) # <<>>
    /\ PathClean(DeclPath(stream, i)) = DeclPath(stream, i)
    /\ DeclPath(stream, i)[1] \notin {"/", "."}

\* Pre-order: open is the chain of directories the part at i may be a child
\* of (the root, then each directory still open, outermost first).
RECURSIVE PreOrderFrom(_, _, _)
PreOrderFrom(stream, i, open) ==
    IF i > Len(stream) THEN TRUE
    ELSE LET K == {k \in 1..Len(open) : open[k] = ParentPath(DeclPath(stream, i))}
         IN  /\ K # {}
             /\ LET k == CHOOSE k \in K : TRUE
                    kept == SubSeq(open, 1, k)
                IN  PreOrderFrom(stream, i + 1,
                                 IF DeclKind(stream, i) = "Directory"
                                 THEN Append(kept, DeclPath(stream, i))
                                 ELSE kept)

\* A well-formed part stream: every part can be read and every directory
\* part immediately precedes the parts of its own subtree, in pre-order.
WellFormed(stream) ==
    /\ \A i \in 1..Len(stream) : ReadablePart(stream, i)
    /\ PreOrderFrom(stream, 1, << <<>> >>)

InitDrain ==
    /\ \E stream \in {s \in Streams : WellFormed(s)} : InitWith(stream)
    /\ pending = Root

NextDrain ==
    \/ DrainEnter
    \/ DrainNext

\* A caller that drains every yielded directory before it advances the
\* parent again, on a well-formed stream.
SpecDrain == InitDrain /\ [][NextDrain]_vars

\* ------------------------------------------- the classifier on its own

\* More values of Part.FileName(): "./b", "abc/file" and "a/x/y".
nameDotB == <<".", "/", "b">>
nameABCFile == <<"a", "b", "c", "/", "f", "i", "l", "e">>
nameAXY == <<"a", "/", "x", "/", "y">>

ClassifierNames ==
    {nameA, nameB, nameAX, nameAY, nameABX, nameDotB, nameABCFile, nameAXY}

\* The parts newFileFromPart is applied to: every name with every
\* Content-Type, with a body that reads and one that does not.
ClassifierParts ==
    {MkPart(n, ct, re) : n \in ClassifierNames, ct \in ContentTypes, re \in BOOLEAN}

\* The values of its parent argument: "", ".", "a", "a/", "ab", "a/x", "b".
ClassifierParents ==
    {<<>>, <<".">>, <<"a">>, <<"a", "/">>, <<"a", "b">>, <<"a", "/", "x">>, <<"b">>}

\* NewFileFromPartReader, line 47: the new peekReader over the reader.
NewPeekReader == [r |-> "src", next |-> 0]

\* newFileFromPart(parent, part, reader) is called on the one part of the
\* stream; the call and what it returned are recorded.
Classify(parent, reader) ==
    /\ last' = [op |-> "newFileFromPart", parent |-> parent, part |-> 1,
                reader |-> reader, res |-> newFileFromPart(parent, 1, reader)]
    /\ UNCHANGED <<src, pos, eofCalls, pr, its, yielded, stack, pending>>

\* The effect of NewFileFromPartReader(reader, mediatype), r being what it
\* returned: a directory comes with a new peekReader.
ConstructEffect(mediatype, r) ==
    /\ last' = [op |-> "NewFileFromPartReader", mediatype |-> mediatype, res |-> r]
    /\ pr' = IF r.err = NoErr THEN NewPeekReader ELSE pr
    /\ UNCHANGED <<src, pos, eofCalls, its, yielded, stack, pending>>

Construct(mediatype) ==
    ConstructEffect(mediatype, NewFileFromPartReader(mediatype))

InitClassify ==
    /\ \E part \in ClassifierParts : InitWith(<<part>>)
    /\ pending = NoPending

NextClassify ==
    \/ \E parent \in ClassifierParents, reader \in {"pr", "raw"} : Classify(parent, reader)
    \/ \E mediatype \in ContentTypes : Construct(mediatype)

\* newFileFromPart and NewFileFromPartReader applied to every input.
SpecClassify == InitClassify /\ [][NextClassify]_vars

\* --------------------------------------- Next(), one pull at a time

\* One iteration of Next's loop, lines 137-156: [it, rs, done, ret, part];
\* done says the call has returned, part is the part pulled (0 if none).

\* lines 159-167, u being what the pushback returned
NextIterationUndone(u, part) ==
    [it |-> u.it, rs |-> u.rs, done |-> TRUE, ret |-> FALSE, part |-> part]

\* lines 147-156, c being what newFileFromPart returned for np.part
NextIterationClassified(it, np, c) ==
    IF NextDisposition(c.err) = "break"
    THEN NextIterationUndone(NextUndo(it, np.rs, np.part), np.part)
    ELSE IF NextDisposition(c.err) = "return"
    THEN [it |-> NextRecord(it, c), rs |-> np.rs, done |-> TRUE,
          ret |-> c.err = NoErr, part |-> np.part]
    ELSE [it |-> it, rs |-> np.rs, done |-> FALSE, ret |-> FALSE, part |-> np.part]

\* lines 139-147, np being what NextPart returned
NextIterationPulled(it, np) ==
    IF np.err # NoErr
    THEN [it |-> NextSourceError(it, np.err), rs |-> np.rs, done |-> TRUE,
          ret |-> FALSE, part |-> 0]
    ELSE NextIterationClassified(it, np,
                                 newFileFromPart(fileName(it.f), np.part, it.f.Reader))

NextIteration(it, rs) ==
    NextIterationPulled(it, ReaderNextPart(it.f.Reader, rs))

\* The answers the part readers still have: the pending part and what the
\* underlying source has not given yet.
Remaining ==
    (IF pr.next # 0 THEN 1 ELSE 0) + (IF pr.r = "nil" THEN 0 ELSE Len(src) - pos)

\* The record of the Next() call in progress, or of the last one (history):
\* the iterator, whether the call is still in its loop, how often it has
\* called NextPart, what the readers had left and what the iterator and the
\* readers were when it began, and what it returned.
NoCall ==
    [op |-> "none", it |-> 0, running |-> FALSE, pulls |-> 0, remaining |-> 0,
     ret |-> FALSE, startIt |-> NewIterator(Root), startRs |-> [pr |-> NewPeekReader, pos |-> 0, eofCalls |-> 0]]

\* The answers of the part source in the streams Next() is stepped through.
LoopEvents ==
    {MkPart(nameA, multipartFormdataType, FALSE),
     MkPart(nameB, "", FALSE),
     MkPart(nameAX, "", FALSE),
     MkPart(nameABX, "", FALSE),
     SourceFailure}

\* Between calls, a caller obtains an iterator.
LoopEntries(f) ==
    /\ ~last.running
    /\ Entries(f)

\* its[i].Next() is called, lines 131-135: with no Reader it returns at once.
LoopCall(i) ==
    /\ ~last.running
    /\ last' = [op |-> "Next", it |-> i, running |-> its[i].f.Reader # "nil",
                pulls |-> 0, remaining |-> Remaining, ret |-> FALSE,
                startIt |-> its[i], startRs |-> ReaderState]
    /\ its' = IF its[i].f.Reader # "nil" THEN its ELSE [its EXCEPT ![i].ret = "false"]
    /\ UNCHANGED <<src, pos, eofCalls, pr, yielded, stack, pending>>

\* The effect of one iteration of the running call's loop, r being what the
\* iteration did.
LoopStepEffect(r) ==
    /\ its' = [its EXCEPT ![last.it] =
                  [r.it EXCEPT !.ret = IF ~r.done THEN its[last.it].ret
                                       ELSE IF r.ret THEN "true" ELSE "false"]]
    /\ pr' = r.rs.pr
    /\ pos' = r.rs.pos
    /\ eofCalls' = r.rs.eofCalls
    /\ yielded' = IF r.ret
                  THEN Append(yielded, [it |-> last.it, dir |-> fileName(its[last.it].f),
                                        part |-> r.part,
                                        name |-> r.it.curName, node |-> r.it.curFile])
                  ELSE yielded
    /\ last' = [last EXCEPT !.running = ~r.done, !.pulls = last.pulls + 1, !.ret = r.ret]
    /\ UNCHANGED <<src, stack, pending>>

\* The running call goes through its loop once.
LoopStep ==
    /\ last.running
    /\ LoopStepEffect(NextIteration(its[last.it], ReaderState))

InitLoop ==
    /\ src \in SeqsUpTo(LoopEvents, MaxParts)
    /\ pos = 0
    /\ eofCalls = 0
    /\ pr = NewPeekReader
    /\ its = <<>>
    /\ yielded = <<>>
    /\ last = NoCall
    /\ stack = <<>>
    /\ pending = NoPending

NextLoopSteps ==
    \/ \E f \in KnownDirs : LoopEntries(f)
    \/ \E i \in 1..Len(its) : LoopCall(i)
    \/ LoopStep

\* Next() as the loop it is, one iteration a step.
SpecLoop == InitLoop /\ [][NextLoopSteps]_vars

\* ------------------------------------------------------------- claims

\* The scope error of part p against the directory of iterator i.
ScopeOfPaths(sc) == ScopeErr(sc.dir, sc.parent)
ScopeOf(i, p) == ScopeOfPaths(ScopePaths(fileName(its[i].f), p, its[i].f.Reader))

\* What the classifier makes of part p for iterator i.
ClassOf(i, p) == newFileFromPart(fileName(its[i].f), p, its[i].f.Reader)

\* The parts the last Next() passed over: all it pulled but the last, and
\* the last too when the call ended on an error of the part source.
PassedOver ==
    IF last.srcErr # NoErr
    THEN {last.pulled[k] : k \in 1..Len(last.pulled)}
    ELSE {last.pulled[k] : k \in 1..(Len(last.pulled) - 1)}

\* The last part the last Next() pulled (0 if none).
LastPulled == IF last.pulled = <<>> THEN 0 ELSE last.pulled[Len(last.pulled)]

\* The last Next() ended on a part (not on an error of the part source).
EndedOnPart == last.op = "Next" /\ last.srcErr = NoErr /\ last.pulled # <<>>

\* The last Next() yielded part p.
YieldedByLast(p) ==
    /\ last.ret
    /\ yielded # <<>>
    /\ yielded[Len(yielded)].part = p
    /\ yielded[Len(yielded)].it = last.it

JoinPath(dir, name) == IF dir = <<>> THEN name ELSE dir \o <<"/">> \o name

\* Entry k as yielded: the part, the directory whose iterator yielded it, the
\* full path and the node kind.
YieldView(k) ==
    [part |-> yielded[k].part, by |-> yielded[k].dir,
     path |-> JoinPath(yielded[k].dir, yielded[k].name),
     kind |-> yielded[k].node.kind]

\* Part i as the stream declares it.
DeclView(i) ==
    [part |-> i, by |-> ParentPath(DeclPath(src, i)),
     path |-> DeclPath(src, i), kind |-> DeclKind(src, i)]

\* The draining caller has left the root directory.
DrainDone == stack = <<>> /\ pending = NoPending /\ its # <<>>

\* C1: on a well-formed stream, drained in order, the entries yielded are the
\* parts of the stream in their order, each yielded once, by the iterator of
\* the directory its declared parent path names, with its full path and node
\* kind; no part is discarded, no error is reported, and when the root is
\* drained every part has been yielded.
C1_DrainYieldsPartsInOrder ==
    /\ Len(yielded) <= Len(src)
    /\ \A k \in 1..Len(yielded) : YieldView(k) = DeclView(k)
    /\ \A i \in 1..Len(its) : its[i].err = NoErr
    /\ last.op = "Next" => PassedOver = {}
    /\ (last.op = "Next" /\ ~last.ret /\ last.pulled # <<>>) => pr.next = LastPulled
    /\ DrainDone => Len(yielded) = Len(src)

\* C1's case: a directory was entered and drained, the part after its
\* subtree was read too far and pushed back, and the root then yielded it.
C1_Witness ==
    /\ DrainDone
    /\ Len(yielded) = 3
    /\ yielded[1].node.kind = "Directory"
    /\ yielded[2].dir # <<>>
    /\ yielded[3].dir = <<>>

\* d is a descendant of the path p, segment by segment.
IsDescendantPath(d, p) ==
    IF p = <<>> THEN d # <<>> ELSE HasPrefix(d, p \o <<"/">>)

\* Part p's declared parent dir is neither iterator i's directory nor a
\* descendant of it.
OutsideOf(sc) == sc.dir # sc.parent /\ ~IsDescendantPath(sc.dir, sc.parent)
IsOutside(i, p) == OutsideOf(ScopePaths(fileName(its[i].f), p, its[i].f.Reader))

\* C2: a Next() that pulls a part whose declared parent path is neither the
\* directory's path nor a descendant of it returns false and leaves that part
\* in the lookahead buffer, where the next pull finds it.
C2_OutsidePartEndsDirectory ==
    last.op = "Next" =>
        \A k \in 1..Len(last.pulled) :
            IsOutside(last.it, last.pulled[k]) =>
                /\ ~last.ret
                /\ pr.next = last.pulled[k]
                /\ peekReaderNextPart(ReaderState).part = last.pulled[k]

\* The same with the code's test: the directory's path is no string prefix of
\* the declared parent dir.
OutsideByPrefixEndsDirectory ==
    last.op = "Next" =>
        \A k \in 1..Len(last.pulled) :
            ScopeOf(last.it, last.pulled[k]) = ErrPartOutsideParent =>
                /\ ~last.ret
                /\ pr.next = last.pulled[k]
                /\ peekReaderNextPart(ReaderState).part = last.pulled[k]

\* The stream of the orphan scenario: a/x, a/y, b, no directory part for a
\* (a/y is a symlink here; the Content-Type of a part out of scope is not read).
OrphanStream ==
    <<MkPart(nameAX, "", FALSE), MkPart(nameAY, applicationSymlink, FALSE),
      MkPart(nameB, "", FALSE)>>

\* C3: Next() passes over exactly the parts classified in-child-tree: each is
\* dropped (not yielded, not left in the buffer, no error set for it), and
\* the call goes on to the next part; a direct child found after them is
\* yielded.  On the orphan stream the root yields b alone, then the
\* end-marker.
C3_ChildTreePartsAreDropped ==
    last.op = "Next" =>
        /\ \A p \in PassedOver :
              /\ ScopeOf(last.it, p) = ErrPartInChildTree
              /\ ~YieldedByLast(p)
              /\ pr.next # p
        /\ EndedOnPart => ScopeOf(last.it, LastPulled) # ErrPartInChildTree
        /\ (EndedOnPart /\ ClassOf(last.it, LastPulled).err = NoErr) =>
              /\ YieldedByLast(LastPulled)
              /\ its[last.it].curName = ClassOf(last.it, LastPulled).name
              /\ its[last.it].err = NoErr
        /\ last.srcErr = EOF => its[last.it].err = last.errBefore
        /\ src = OrphanStream =>
              /\ \A k \in 1..Len(yielded) :
                    yielded[k].part = 3 /\ yielded[k].name = <<"b">>
              /\ IF last.pulled # <<>>
                 THEN last.pulled = <<1, 2, 3>> /\ YieldedByLast(3)
                 ELSE ~last.ret /\ its[last.it].err = NoErr

\* C3's case: an iterator yielded a directory, was advanced again with the
\* directory undrained, dropped a part of its subtree and yielded the next
\* direct child.
C3_Witness ==
    /\ last.op = "Next"
    /\ last.ret
    /\ Len(last.pulled) >= 2
    /\ Len(yielded) >= 2
    /\ yielded[Len(yielded) - 1].node.kind = "Directory"
    /\ yielded[Len(yielded) - 1].it = last.it

\* C4: an iterator whose Next() has returned false with a nil Err() keeps
\* returning false with a nil Err(), whatever is called in between.
C4_ExhaustedStaysExhausted ==
    [][\A i \in 1..Len(its) :
          (its[i].ret = "false" /\ its[i].err = NoErr) =>
              (its'[i].ret = "false" /\ its'[i].err = NoErr)]_vars

\* C5: an iterator whose Next() has returned false with an error E keeps
\* returning false, and Err() keeps returning E.
C5_ErroredStaysErrored ==
    [][\A i \in 1..Len(its) :
          (its[i].ret = "false" /\ its[i].err # NoErr) =>
              (its'[i].ret = "false" /\ its'[i].err = its[i].err)]_vars

\* C6: put(p) on an empty slot stores p and returns nil; put(q) on a slot
\* holding p returns the protocol-violation error and leaves p pending.
C6_PutHoldsOnePart ==
    last.op = "put" =>
        /\ IF last.before.pr.next = 0
           THEN pr.next = last.arg /\ last.err = NoErr
           ELSE pr.next = last.before.pr.next /\ last.err = ErrCannotPut
        /\ pos = last.before.pos
        /\ eofCalls = last.before.eofCalls

\* C6's case: a second part was put while another one was pending.
C6_Witness ==
    /\ last.op = "put"
    /\ last.before.pr.next # 0
    /\ last.arg # last.before.pr.next
    /\ last.err = ErrCannotPut

\* C7: NextPart returns the pending part, emptying the slot and leaving the
\* source alone; with an empty slot it returns the source's next answer; once
\* the source has answered end-of-input it is not asked again, every NextPart
\* with an empty slot returns end-of-input, and a part put after that is
\* still returned.
C7_NextPartPrefersPendingAndStopsAtEOF ==
    /\ eofCalls <= 1
    /\ last.op = "NextPart" =>
          IF last.before.pr.next # 0
          THEN /\ last.part = last.before.pr.next
               /\ last.err = NoErr
               /\ pr.next = 0
               /\ pos = last.before.pos
               /\ eofCalls = last.before.eofCalls
          ELSE IF last.before.eofCalls > 0
          THEN /\ last.part = 0
               /\ last.err = EOF
               /\ pos = last.before.pos
               /\ eofCalls = last.before.eofCalls
          ELSE IF last.before.pos < Len(src)
          THEN /\ pos = last.before.pos + 1
               /\ eofCalls = 0
               /\ IF src[pos].SrcErr
                  THEN last.part = 0 /\ last.err = ErrSource
                  ELSE last.part = pos /\ last.err = NoErr
          ELSE /\ last.part = 0
               /\ last.err = EOF
               /\ pos = last.before.pos
               /\ eofCalls = 1

\* C7's case: the source had answered end-of-input, a part was put, and
\* NextPart returned it.
C7_Witness ==
    /\ last.op = "NextPart"
    /\ last.before.eofCalls = 1
    /\ last.before.pr.next # 0
    /\ last.part = last.before.pr.next

\* C8: no iterator's Err() is ever one of the two scope errors.
C8_ScopeErrorsStayInside ==
    \A i \in 1..Len(its) :
        its[i].err \notin {ErrPartOutsideParent, ErrPartInChildTree}

\* C8's case: one Next() met both scope errors: it dropped a part of a child
\* tree and then pushed a part outside the directory back.
C8_Witness ==
    /\ EndedOnPart
    /\ Len(last.pulled) >= 2
    /\ ScopeOf(last.it, last.pulled[1]) = ErrPartInChildTree
    /\ ScopeOf(last.it, LastPulled) = ErrPartOutsideParent

\* C9: when the part source fails with an error other than end-of-input, or
\* a direct child does not classify, Next() returns false, Err() is that
\* error and no entry is yielded.
C9_FailureIsReported ==
    last.op = "Next" =>
        /\ last.srcErr \notin {NoErr, EOF} =>
              /\ ~last.ret
              /\ its[last.it].err = last.srcErr
        /\ (EndedOnPart /\ ScopeOf(last.it, LastPulled) = NoErr
                        /\ ClassOf(last.it, LastPulled).err # NoErr) =>
              /\ ~last.ret
              /\ its[last.it].err = ClassOf(last.it, LastPulled).err
              /\ \A k \in 1..Len(yielded) : yielded[k].part # LastPulled

\* C9's case: one iterator failed on a direct child that does not classify,
\* and the last Next() failed on a transport error of the part source.
C9_Witness ==
    /\ last.op = "Next"
    /\ last.srcErr = ErrSource
    /\ \E i \in 1..Len(its) : its[i].err \in {ErrMime, ErrReadBody}

\* C10: when the part source reports end-of-input, Next() returns false and
\* records no error: a nil Err() stays nil.
C10_EndOfInputIsNoError ==
    (last.op = "Next" /\ last.srcErr = EOF) =>
        /\ ~last.ret
        /\ last.errBefore = NoErr => its[last.it].err = NoErr

\* C10's case: a Next() on an iterator without error ran into end-of-input
\* after it had pulled a part.
C10_Witness ==
    /\ last.op = "Next"
    /\ last.srcErr = EOF
    /\ last.errBefore = NoErr
    /\ last.pulled # <<>>

\* The last call of newFileFromPart was given a direct child of its parent.
ClassifiedChild ==
    /\ last.op = "newFileFromPart"
    /\ ScopeOfPaths(ScopePaths(last.parent, last.part, last.reader)) = NoErr

\* What newFileFromPart returns for a direct child whose Content-Type ct is
\* not application/symlink.
NotSymlinkKind(ct, pm, res) ==
    IF ct \in {"", applicationFile}
    THEN res.err = NoErr /\ res.node.kind = "File" /\ res.node.reader = last.part
    ELSE IF pm.err # NoErr
    THEN res.err = pm.err /\ res.node = NilNode
    ELSE IF pm.mediatype \in {multipartFormdataType, applicationDirectory}
    THEN /\ res.err = NoErr
         /\ res.node.kind = "Directory"
         /\ res.node.Part = last.part
         /\ res.node.Reader = last.reader
    ELSE res.err = NoErr /\ res.node.kind = "File" /\ res.node.reader = last.part

\* A symlink whose target is the whole body text.
SymlinkOfBody(res) ==
    res.err = NoErr /\ res.node = [kind |-> "Symlink", Target |-> src[last.part].Body]

\* C11 as stated: for a direct child, application/symlink gives a Symlink
\* whose target is the body text, whatever reading the body does; the other
\* Content-Types give a File, a parse error, or a Directory bound to the part
\* and the reader.
C11_KindByContentTypeAlone ==
    ClassifiedChild =>
        IF src[last.part].ContentType = applicationSymlink
        THEN SymlinkOfBody(last.res)
        ELSE NotSymlinkKind(src[last.part].ContentType,
                            ParseMediaType(src[last.part].ContentType), last.res)

\* C11, amended: for a direct child, application/symlink gives a Symlink whose
\* target is the whole body text when the body reads, and the read error and
\* no node when it does not; an empty Content-Type or application/octet-stream
\* gives a File and no error; any other value is parsed and gives the parse
\* error, a Directory bound to the part and the reader when the parsed type is
\* multipart/form-data or application/x-directory, and a File otherwise.
C11_KindByContentTypeAndBody ==
    ClassifiedChild =>
        IF src[last.part].ContentType = applicationSymlink
        THEN IF src[last.part].ReadErr
             THEN last.res.err = ErrReadBody /\ last.res.node = NilNode
             ELSE SymlinkOfBody(last.res)
        ELSE NotSymlinkKind(src[last.part].ContentType,
                            ParseMediaType(src[last.part].ContentType), last.res)

\* C11's case: a direct child of directory "a" whose Content-Type parses to
\* multipart/form-data without being equal to it became a Directory bound to
\* the reader it was classified with.
C11_Witness ==
    /\ ClassifiedChild
    /\ last.parent = <<"a">>
    /\ src[last.part].ContentType = "multipart/form-data; boundary=x"
    /\ last.res.node.kind = "Directory"
    /\ last.res.node.Reader = last.reader
    /\ last.reader = "raw"

\* The scope class newFileFromPart's result shows.
ScopeClass(res) ==
    IF res.err = ErrPartInChildTree THEN "in-child-tree"
    ELSE IF res.err = ErrPartOutsideParent THEN "outside-parent"
    ELSE "direct child"

\* The scope class of normalised paths: equal, a literal string prefix, or
\* neither.
ClassOfPaths(sc) ==
    IF sc.dir = sc.parent THEN "direct child"
    ELSE IF HasPrefix(sc.dir, sc.parent) THEN "in-child-tree"
    ELSE "outside-parent"

\* The last call of newFileFromPart: its parent argument and the part's name.
ClassifiedAs(parent, name) ==
    last.parent = parent /\ src[last.part].FileName = name

\* C12: newFileFromPart classifies a part by its declared parent dir and the
\* directory's path, both normalised ("" and "." are the root): equal paths
\* give a direct child; else the directory's path being a literal string
\* prefix of the declared parent dir gives in-child-tree, so directory "ab"
\* takes "abc/file" for a part of its child tree; else outside-parent.  Each
\* part gets exactly one of the three.
C12_ScopeByLiteralPrefix ==
    last.op = "newFileFromPart" =>
        /\ ScopeClass(last.res) =
              ClassOfPaths(ScopePaths(last.parent, last.part, last.reader))
        /\ last.parent \in {<<>>, <<".">>} =>
              /\ ScopePaths(last.parent, last.part, last.reader).parent = <<>>
              /\ ScopeClass(last.res) # "outside-parent"
              /\ src[last.part].FileName \in {nameA, nameB, nameDotB} =>
                    ScopeClass(last.res) = "direct child"
        /\ ClassifiedAs(<<"a", "b">>, nameABCFile) =>
              ScopeClass(last.res) = "in-child-tree"
        /\ ClassifiedAs(<<"a">>, nameABX) => ScopeClass(last.res) = "in-child-tree"
        /\ ClassifiedAs(<<"a">>, nameAXY) => ScopeClass(last.res) = "in-child-tree"
        /\ ClassifiedAs(<<"a", "/">>, nameAX) => ScopeClass(last.res) = "direct child"
        /\ ClassifiedAs(<<"a">>, nameAY) => ScopeClass(last.res) = "direct child"
        /\ ClassifiedAs(<<"a", "/", "x">>, nameAXY) =>
              ScopeClass(last.res) = "direct child"
        /\ ClassifiedAs(<<"a", "/", "x">>, nameAY) =>
              ScopeClass(last.res) = "outside-parent"
        /\ ClassifiedAs(<<"b">>, nameAX) => ScopeClass(last.res) = "outside-parent"
        /\ ClassifiedAs(<<"a", "b">>, nameA) => ScopeClass(last.res) = "outside-parent"

\* C12's case: "abc/file" was classified against directory "ab" and found to
\* be in its child tree.
C12_Witness ==
    /\ last.op = "newFileFromPart"
    /\ ClassifiedAs(<<"a", "b">>, nameABCFile)
    /\ last.res.err = ErrPartInChildTree

\* C13: NewFileFromPartReader returns a root directory (no part behind it, the
\* empty path, a new lookahead buffer with an empty slot) exactly when the
\* media type is multipart/form-data or application/x-directory, as written;
\* for any other media type, multipart/mixed among them, it returns
\* ErrNotDirectory and no directory.
C13_RootNeedsDirectoryType ==
    last.op = "NewFileFromPartReader" =>
        /\ IF last.mediatype \in {"multipart/form-data", "application/x-directory"}
           THEN /\ last.res.err = NoErr
                /\ last.res.f.kind = "Directory"
                /\ last.res.f.Part = 0
                /\ last.res.f.Mediatype = last.mediatype
                /\ fileName(last.res.f) = <<>>
                /\ last.res.f.Reader = "pr"
                /\ pr.r = "src"
                /\ pr.next = 0
           ELSE /\ last.res.err = ErrNotDirectory
                /\ last.res.f = NilNode
        /\ last.mediatype = "multipart/mixed" => last.res.err = ErrNotDirectory

\* C13's case: a root directory was made for application/x-directory.
C13_Witness ==
    /\ last.op = "NewFileFromPartReader"
    /\ last.mediatype = applicationDirectory
    /\ last.res.err = NoErr
    /\ last.res.f.Part = 0

\* Name() and Node() of iterator i expose no entry.
NoEntry(i) == its[i].curName = <<>> /\ its[i].curFile = NilNode

\* After a Next() that returned true, Name() and Node() are the base name and
\* the node of the part that call pulled last.
EntryAfterSuccess ==
    (last.op = "Next" /\ last.ret) =>
        /\ its[last.it].curName = ClassOf(last.it, LastPulled).name
        /\ its[last.it].curFile = ClassOf(last.it, LastPulled).node
        /\ its[last.it].curName # <<>>
        /\ its[last.it].curFile # NilNode

\* C14: an iterator exposes an entry only after a Next() that returned true:
\* before its first Next(), and after a Next() that returned false, Name() is
\* empty and Node() is nil; after a Next() that returned true they are the base
\* name and the node of the part that call pulled.
C14_EntryOnlyAfterSuccess ==
    /\ \A i \in 1..Len(its) : its[i].ret # "true" => NoEntry(i)
    /\ EntryAfterSuccess

\* C15: a directory an iterator yields has the Reader of the directory that
\* yielded it, so every directory under the root reads through the root's one
\* peekReader, and no Next() ends in "cannot undo NextPart".
C15_OneSharedBuffer ==
    /\ \A k \in 1..Len(yielded) :
          yielded[k].node.kind = "Directory" =>
              yielded[k].node.Reader = its[yielded[k].it].f.Reader
    /\ \A i \in 1..Len(its) :
          /\ its[i].f.Reader = Root.Reader
          /\ its[i].err # ErrCannotUndo

\* C15's case: the iterator of a yielded directory read one part too far and
\* pushed it back through the shared buffer.
C15_Witness ==
    /\ EndedOnPart
    /\ its[last.it].f.Part # 0
    /\ ScopeOf(last.it, LastPulled) = ErrPartOutsideParent
    /\ pr.next = LastPulled
    /\ its[last.it].err = NoErr

\* Part p cannot be made a node: its Content-Type does not parse, or it is a
\* symlink whose body does not read.
Unclassifiable(p) ==
    \/ src[p].ContentType = applicationSymlink /\ src[p].ReadErr
    \/ /\ src[p].ContentType \notin {"", applicationSymlink, applicationFile}
       /\ ParseMediaType(src[p].ContentType).err # NoErr

\* C16: for a part out of the directory's scope newFileFromPart returns the
\* scope error and no node, whatever the part's Content-Type and body are; an
\* iterator has a Content-Type or body error only from a direct child its
\* Next() ended on (or from before a Next() that ran into end-of-input).
C16_ScopeBeforeContentType ==
    last.op = "Next" =>
        /\ \A k \in 1..Len(last.pulled) :
              ScopeOf(last.it, last.pulled[k]) # NoErr =>
                  ClassOf(last.it, last.pulled[k]) =
                      [name |-> <<>>, node |-> NilNode,
                       err |-> ScopeOf(last.it, last.pulled[k])]
        /\ its[last.it].err \in {ErrMime, ErrReadBody} =>
              \/ EndedOnPart /\ ScopeOf(last.it, LastPulled) = NoErr
              \/ last.srcErr = EOF /\ last.errBefore = its[last.it].err

\* C16's case: a Next() dropped a part of a child tree that cannot be made a
\* node and yielded the direct child after it.
C16_Witness ==
    /\ last.op = "Next"
    /\ last.ret
    /\ its[last.it].err = NoErr
    /\ \E p \in PassedOver :
          /\ ScopeOf(last.it, p) = ErrPartInChildTree
          /\ Unclassifiable(p)

\* The same for a part outside the directory: it was pushed back, and the
\* iterator has no error.
OutsideUnclassifiablePushedBack ==
    /\ EndedOnPart
    /\ ScopeOf(last.it, LastPulled) = ErrPartOutsideParent
    /\ Unclassifiable(LastPulled)
    /\ pr.next = LastPulled
    /\ its[last.it].err = NoErr

\* C17: with Next() calls running one at a time, the pushback of Next() finds
\* the slot empty: a Next() that ends on a part outside its directory leaves
\* that part pending and the iterator without error, and no iterator's Err()
\* is ever "cannot put multiple parts".
C17_PushbackNeverFails ==
    /\ \A i \in 1..Len(its) : its[i].err # ErrCannotPut
    /\ (EndedOnPart /\ ScopeOf(last.it, LastPulled) = ErrPartOutsideParent) =>
          /\ pr.next = LastPulled
          /\ its[last.it].err = NoErr

\* C17's case: a Next() on an iterator that had an error pulled a part outside
\* its directory and pushed it back; put's nil result is the iterator's
\* error now.
C17_Witness ==
    /\ EndedOnPart
    /\ ScopeOf(last.it, LastPulled) = ErrPartOutsideParent
    /\ last.errBefore # NoErr
    /\ pr.next = LastPulled
    /\ its[last.it].err = NoErr

\* The parts yielded so far.
YieldedParts == {yielded[k].part : k \in 1..Len(yielded)}

\* One Next() call, as a step: every part it pulls is the pending part (first
\* pull only) or a part the source had not given before; none was yielded
\* before; the part pending afterwards, if any, is the last this call pulled,
\* was classified outside-parent and not yielded; the entries yielded are
\* distinct parts.
NextPullsFreshParts ==
    (Len(its') = Len(its) /\ last'.op = "Next") =>
        /\ \A k \in 1..Len(last'.pulled) :
              /\ IF k = 1 /\ pr.next # 0
                 THEN last'.pulled[k] = pr.next
                 ELSE last'.pulled[k] > pos
              /\ last'.pulled[k] \notin YieldedParts
        /\ pr.next # 0 => last'.pulled # <<>>
        /\ pr'.next # 0 =>
              /\ last'.pulled # <<>>
              /\ pr'.next = last'.pulled[Len(last'.pulled)]
              /\ ~last'.ret
              /\ ScopeOf(last'.it, pr'.next) = ErrPartOutsideParent
        /\ \A j, k \in 1..Len(yielded') :
              j < k => yielded'[j].part < yielded'[k].part

\* C18: over all iterators on the shared buffer, several of one directory
\* among them, and any order of Next() calls: a part is yielded at most once,
\* a part yielded or dropped is not pulled again, and only a part classified
\* outside-parent goes back to the buffer.
C18_PartsYieldedAtMostOnce == [][NextPullsFreshParts]_vars

\* C18's case: two iterators of the root directory have each yielded an
\* entry.
C18_Witness ==
    /\ Len(its) = 2
    /\ its[1].f = its[2].f
    /\ \E j, k \in 1..Len(yielded) : yielded[j].it = 1 /\ yielded[k].it = 2

\* The declared parent dir of part p, normalised.
DeclaredDir(i, p) == ScopePaths(fileName(its[i].f), p, its[i].f.Reader).dir

\* C19: an iterator of the root directory never finds a part outside its
\* directory: it pushes nothing back (the slot is empty after its Next()), a
\* part it pulls that declares a non-empty parent dir is dropped, and its
\* Next() returns false only at end-of-input or with an error.
C19_RootNeverPushesBack ==
    (last.op = "Next" /\ its[last.it].f.Part = 0) =>
        /\ fileName(its[last.it].f) = <<>>
        /\ \A k \in 1..Len(last.pulled) :
              /\ ScopeOf(last.it, last.pulled[k]) # ErrPartOutsideParent
              /\ DeclaredDir(last.it, last.pulled[k]) # <<>> =>
                    /\ last.pulled[k] \in PassedOver
                    /\ last.pulled[k] \notin YieldedParts
        /\ pr.next = 0
        /\ ~last.ret =>
              \/ last.srcErr = EOF
              \/ its[last.it].err # NoErr

\* C19's case: after the iterator of a yielded directory had yielded an entry,
\* a Next() of the root's iterator pulled only parts that declare a parent
\* dir, dropped them all and ran into end-of-input.
C19_Witness ==
    /\ last.op = "Next"
    /\ its[last.it].f.Part = 0
    /\ last.srcErr = EOF
    /\ Len(last.pulled) >= 1
    /\ \A k \in 1..Len(last.pulled) : DeclaredDir(last.it, last.pulled[k]) # <<>>
    /\ \E i \in 1..Len(its) : its[i].f.Part # 0 /\ its[i].ret = "true"

\* A Next() call has made at most one pull more than the part readers had
\* answers when it began, and no more than they had while it is in its loop.
PullsBounded ==
    /\ last.pulls <= last.remaining + 1
    /\ last.running => last.pulls <= last.remaining

\* An iteration after which the call is still in its loop found an answer
\* left and has taken it from the buffer or the underlying source: what is
\* left is a natural number that every such iteration makes smaller.
LoopTakesOnePart ==
    (last.running /\ last'.running) =>
        /\ Remaining >= 1
        /\ Remaining' = Remaining - 1
        /\ last'.pulls = last.pulls + 1

\* The call, once it has returned, has done what Next() does in one go.
LoopAgreesWithNext ==
    (last.op = "Next" /\ ~last.running) =>
        /\ its[last.it] =
              [IteratorNext(last.startIt, last.startRs).it EXCEPT
                  !.ret = IF last.ret THEN "true" ELSE "false"]
        /\ ReaderState = IteratorNext(last.startIt, last.startRs).rs
        /\ last.ret = IteratorNext(last.startIt, last.startRs).ret

\* C20: every Next() call returns on a finite part stream: each iteration of
\* its loop that does not return takes one part from the buffer or the
\* underlying source, so a call makes at most (parts remaining when it began
\* + 1) pulls; a call that has made as many pulls as parts remained is out of
\* its loop after one more.
C20_NextTerminates ==
    /\ []PullsBounded
    /\ [][LoopTakesOnePart]_vars

\* C20's case: a call dropped every part that was left and returned at
\* end-of-input, one pull later.
C20_Witness ==
    /\ last.op = "Next"
    /\ ~last.running
    /\ last.remaining >= 2
    /\ last.pulls = last.remaining + 1

====
